---- MODULE Spec2Model ----
(***************************************************************************)
(* The trunk parser (trunk_parser/src/parser.rs, parser/params.rs) as a    *)
(* state machine.  The recursive descent is made explicit: `stack` holds   *)
(* one frame per active call of parse / statement / expression / postfix / *)
(* param_list, a frame's `pc` is the position of that call in its code,    *)
(* and `ret` is the value a finished call hands to its caller.  Every      *)
(* action is one step of one function between two looks at the token       *)
(* cursor.                                                                 *)
(*                                                                         *)
(* The token vector is the input.  `input` is the part of it the parser    *)
(* has looked at so far, `pos` the number of tokens consumed by next(),    *)
(* and `eof` says that the iterator has answered None.  A token the parser *)
(* has not looked at yet is any kind of `src`: a behaviour of the model is *)
(* the run of the parser on every token vector that extends `input`.       *)
(* A token's payload (the text of a variable, identifier, literal or html  *)
(* block) is modelled by the token's index in the input, so that two       *)
(* tokens never share a payload and an AST leaf names the token it came    *)
(* from.                                                                   *)
(***************************************************************************)
EXTENDS Naturals, Sequences, FiniteSets, TLC

VARIABLES input, pos, eof, src, limit, stack, ret

vars == <<input, pos, eof, src, limit, stack, ret>>

\* Longest token vector the model reads.
MaxLen == 6

------------------------------------------------------------------------------
(* Token kinds (trunk_lexer::TokenKind, as far as the parser names them).    *)

Modifiers == {"Public", "Protected", "Private", "Static"}

Primaries == {"Variable", "Int", "Identifier"}

ExprKinds == Primaries \cup {"Plus", "Minus", "LessThan", "LeftParen", "RightParen",
                             "Comma", "SemiColon"}

TokenKinds == ExprKinds \cup Modifiers \cup
              {"OpenTag", "InlineHtml", "If", "Class", "Echo", "Return", "Function",
               "LeftBrace", "RightBrace"}

\* What peek() / next() answer at the end of the input.
None == "None"

------------------------------------------------------------------------------
(* Pure helpers of parser.rs.                                                 *)

is_method_visibility_modifier(kind) ==
    kind \in {"Public", "Protected", "Private", "Static"}

visibility_token_to_flag(kind) ==
    CASE kind = "Public"    -> "Public"
      [] kind = "Protected" -> "Protected"
      [] kind = "Private"   -> "Private"
      [] kind = "Static"    -> "Static"

\* infix_binding_power with the pair of `+` and `-` inverted (right-associative).
infix_binding_power_inverted(kind) ==
    CASE kind \in {"Plus", "Minus"} -> <<12, 11>>
      [] kind = "LessThan"          -> <<9, 10>>
      [] OTHER                      -> <<>>

\* Option<(u8, u8)>: <<>> is None, <<lbp, rbp>> is Some((lbp, rbp)).
infix_binding_power(kind) ==
    CASE kind \in {"Plus", "Minus"} -> <<11, 12>>
      [] kind = "LessThan"          -> <<9, 10>>
      [] OTHER                      -> <<>>

\* postfix_binding_power with call application looser than every infix operator.
postfix_binding_power_loose(kind) ==
    CASE kind = "LeftParen" -> <<5>>
      [] OTHER              -> <<>>

\* Option<u8>: <<>> is None, <<lbp>> is Some(lbp).
postfix_binding_power(kind) ==
    CASE kind = "LeftParen" -> <<19>>
      [] OTHER              -> <<>>

\* impl From<TokenKind> for InfixOp
InfixOp(kind) ==
    CASE kind = "Plus"     -> "Add"
      [] kind = "Minus"    -> "Sub"
      [] kind = "LessThan" -> "LessThan"

infix(lhs, op, rhs) ==
    [node |-> "Infix", lhs |-> lhs, op |-> InfixOp(op), rhs |-> rhs]

\* The primary expression of a token of kind `kind` at index `at`.
Primary(kind, at) == [node |-> kind, v |-> at]

Call(callee, args) == [node |-> "Call", callee |-> callee, args |-> args]

\* impl From<String> for Param
ParamFrom(at) == [name |-> [node |-> "Variable", v |-> at]]

------------------------------------------------------------------------------
(* Results of a call: Ok(value), Err(ParseError), or a panic that unwinds     *)
(* the whole parse (todo!, unwrap on None).                                   *)

NoRet == [tag |-> "none"]

Ok(val) == [tag |-> "Ok", val |-> val]

ExpectedToken(msg) == [tag |-> "Err", err |-> "ExpectedToken", msg |-> msg]

UnexpectedEndOfFile == [tag |-> "Err", err |-> "UnexpectedEndOfFile", msg |-> ""]

InvalidClassStatement ==
    [tag |-> "Err", err |-> "InvalidClassStatement",
     msg |-> "Classes can only contain properties, constants and methods."]

Panic(msg) == [tag |-> "Panic", msg |-> msg]

------------------------------------------------------------------------------
(* The cursor: Peekable<IntoIter<Token>>.                                     *)

top == stack[Len(stack)]

\* The answers peek() can give in this state: the buffered token, None at the
\* end, or any kind for a token that has not been looked at.
Lookahead ==
    IF pos < Len(input) THEN {input[pos + 1]}
    ELSE IF eof \/ Len(input) >= limit THEN {None}
    ELSE src \cup {None}

\* peek() answered k: the token is now part of the input that has been read.
Peeked(k) ==
    /\ input' = IF pos < Len(input) \/ k = None THEN input ELSE Append(input, k)
    /\ eof' = (eof \/ k = None)

\* peek() answered k and the token stays in the buffer.
Keep(k) == Peeked(k) /\ pos' = pos

\* next() answered k (None consumes nothing).
Take(k) == Peeked(k) /\ pos' = IF k = None THEN pos ELSE pos + 1

\* Index (payload) of the token next() hands out.
At == pos + 1

\* Frame operations.
Goto(f) == stack' = [stack EXCEPT ![Len(stack)] = f]

CallFrom(f, callee) == stack' = Append([stack EXCEPT ![Len(stack)] = f], callee)

Return(r) == stack' = SubSeq(stack, 1, Len(stack) - 1) /\ ret' = r

\* A panic unwinds every frame.
Unwind(msg) == stack' = <<>> /\ ret' = Panic(msg)

Running == stack # <<>>

AtPc(pc) == Running /\ top.pc = pc

\* A step that stays in the current call.
Step(f) == Goto(f) /\ ret' = NoRet

\* A step that calls `callee` and resumes at frame f.
Invoke(f, callee) == CallFrom(f, callee) /\ ret' = NoRet

Cursor == <<input, pos, eof>>

\* The token vectors under consideration: kinds drawn from src, length <= limit.
Source == <<src, limit>>

------------------------------------------------------------------------------
(* Frames.                                                                    *)

NoExpr == [node |-> "none"]

ParseFrame == [fn |-> "parse", pc |-> "parse_loop", program |-> <<>>]

\* statement(t, tokens): t is the token of kind `kind` at index `at`.
StatementFrame(kind, at) ==
    [fn |-> "statement", pc |-> "dispatch", t |-> kind, at |-> at,
     name |-> 0, condition |-> NoExpr, params |-> <<>>, body |-> <<>>,
     values |-> <<>>, flags |-> <<>>]

\* expression(tokens, bp)
ExpressionFrame(bp) ==
    [fn |-> "expression", pc |-> "ex_start", bp |-> bp, lhs |-> NoExpr, op |-> None]

\* postfix(tokens, lhs, op)
PostfixFrame(lhs, op) ==
    [fn |-> "postfix", pc |-> "pf_dispatch", lhs |-> lhs, op |-> op, args |-> <<>>]

------------------------------------------------------------------------------
(* AST constructors (ast.rs).                                                 *)

InlineHtml(at) == [node |-> "InlineHtml", v |-> at]

If(condition, then) == [node |-> "If", condition |-> condition, then |-> then]

Class(name, body) == [node |-> "Class", name |-> name, body |-> body]

Echo(values) == [node |-> "Echo", values |-> values]

\* value: Option<Expression>, <<>> for None and <<e>> for Some(e).
ReturnStmt(value) == [node |-> "Return", value |-> value]

Function(name, params, body) ==
    [node |-> "Function", name |-> name, params |-> params, body |-> body]

Method(name, params, body, flags) ==
    [node |-> "Method", name |-> name, params |-> params, body |-> body,
     flags |-> flags]

------------------------------------------------------------------------------
(* The `?` operator: an Err handed back by the callee is returned at once.    *)

TryPcs == {"parse_push", "if_rparen", "if_push", "class_push", "echo_push",
           "fn_push", "mod_wrap", "ex_postfix", "ex_infix", "pf_push", "pl_push"}

Try ==
    /\ Running
    /\ top.pc \in TryPcs
    /\ ret.tag = "Err"
    /\ Return(ret)
    /\ UNCHANGED <<Cursor, Source>>

------------------------------------------------------------------------------
(* The expect! macro.                                                         *)

\* expect! that lets the end of the input pass.
expect_or_end(k, kind, msg) ==
    IF k = kind \/ k = None THEN Ok(k) ELSE ExpectedToken(msg)

\* expect!(k, kind, msg) for the answer k of tokens.next(): the token passes, or
\* the enclosing function returns Err(ExpectedToken(msg)), also at the end of
\* the input.
expect(k, kind, msg) ==
    IF k = kind THEN Ok(k) ELSE ExpectedToken(msg)

\* expect!(tokens.next(), kind, msg), going on at frame f when the token passes.
Expect(kind, msg, f) ==
    \E k \in Lookahead :
       /\ Take(k)
       /\ LET e == expect(k, kind, msg) IN
            IF e.tag = "Ok" THEN Step(f) ELSE Return(e)

\* expect!(tokens.next(), kind, msg) as the last step of a statement or call
\* that then returns Ok(val).
ExpectLast(k, kind, msg, val) ==
    LET e == expect(k, kind, msg) IN
    IF e.tag = "Ok" THEN Return(Ok(val)) ELSE Return(e)

------------------------------------------------------------------------------
(* Parser::parse                                                              *)

ParseLoop ==
    /\ AtPc("parse_loop")
    /\ \E k \in Lookahead :
          /\ Take(k)
          /\ IF k = None THEN Return(Ok(top.program))
             ELSE IF k = "OpenTag" THEN Step(top)
             ELSE Invoke([top EXCEPT !.pc = "parse_push"], StatementFrame(k, At))
    /\ UNCHANGED Source

\* ParsePush that keeps only the statement parsed last.
ParsePushReplace ==
    /\ AtPc("parse_push")
    /\ ret.tag = "Ok"
    /\ Step([top EXCEPT !.program = <<ret.val>>, !.pc = "parse_loop"])
    /\ UNCHANGED <<Cursor, Source>>

ParsePush ==
    /\ AtPc("parse_push")
    /\ ret.tag = "Ok"
    /\ Step([top EXCEPT !.program = Append(@, ret.val), !.pc = "parse_loop"])
    /\ UNCHANGED <<Cursor, Source>>

------------------------------------------------------------------------------
(* Parser::statement                                                          *)

StatementDispatch ==
    /\ AtPc("dispatch")
    /\ LET t == top.t IN
       CASE t = "InlineHtml" -> Return(Ok(InlineHtml(top.at)))
         [] t = "If"       -> Step([top EXCEPT !.pc = "if_lparen"])
         [] t = "Class"    -> Step([top EXCEPT !.pc = "class_name"])
         [] t = "Echo"     -> Step([top EXCEPT !.pc = "echo_loop"])
         [] t = "Return"   -> Step([top EXCEPT !.pc = "ret_start"])
         [] t = "Function" -> Step([top EXCEPT !.pc = "fn_name"])
         [] is_method_visibility_modifier(t) ->
               Step([top EXCEPT !.pc = "mod_loop",
                                !.flags = <<visibility_token_to_flag(t)>>])
         [] OTHER -> Unwind("unhandled token")
    /\ UNCHANGED <<Cursor, Source>>


(* If arm *)

IfLeftParen ==
    /\ AtPc("if_lparen")
    /\ \E k \in Lookahead :
          /\ Take(k)
          /\ LET e == expect(k, "LeftParen", "expected (") IN
               IF e.tag = "Ok"
               THEN Invoke([top EXCEPT !.pc = "if_rparen"], ExpressionFrame(0))
               ELSE Return(e)
    /\ UNCHANGED Source

IfRightParen ==
    /\ AtPc("if_rparen")
    /\ ret.tag = "Ok"
    /\ Expect("RightParen", "expected )",
              [top EXCEPT !.condition = ret.val, !.pc = "if_lbrace"])
    /\ UNCHANGED Source

IfLeftBrace ==
    /\ AtPc("if_lbrace")
    /\ Expect("LeftBrace", "expected {", [top EXCEPT !.pc = "if_body"])
    /\ UNCHANGED Source

IfBody ==
    /\ AtPc("if_body")
    /\ \E k \in Lookahead :
          /\ Take(k)
          /\ IF k \notin {None, "RightBrace"}
             THEN Invoke([top EXCEPT !.pc = "if_push"], StatementFrame(k, At))
             ELSE ExpectLast(k, "RightBrace", "expected }",
                             If(top.condition, top.body))
    /\ UNCHANGED Source

IfPush ==
    /\ AtPc("if_push")
    /\ ret.tag = "Ok"
    /\ Step([top EXCEPT !.body = Append(@, ret.val), !.pc = "if_body"])
    /\ UNCHANGED <<Cursor, Source>>

(* Class arm *)

ClassName ==
    /\ AtPc("class_name")
    /\ \E k \in Lookahead :
          /\ Take(k)
          /\ LET e == expect(k, "Identifier", "expected class name") IN
               IF e.tag = "Ok"
               THEN Step([top EXCEPT !.name = At, !.pc = "class_lbrace"])
               ELSE Return(e)
    /\ UNCHANGED Source

ClassLeftBrace ==
    /\ AtPc("class_lbrace")
    /\ Expect("LeftBrace", "expected left-brace", [top EXCEPT !.pc = "class_body"])
    /\ UNCHANGED Source

ClassBody ==
    /\ AtPc("class_body")
    /\ \E k \in Lookahead :
          /\ Take(k)
          /\ IF k \notin {None, "RightBrace"}
             THEN Invoke([top EXCEPT !.pc = "class_push"], StatementFrame(k, At))
             ELSE ExpectLast(k, "RightBrace", "expected right-brace",
                             Class(top.name, top.body))
    /\ UNCHANGED Source

\* class_member without the restriction to functions and methods.
class_member_any(s) ==
    CASE s.node = "Function" -> Ok(Method(s.name, s.params, s.body, <<>>))
      [] OTHER               -> Ok(s)

\* The match on the inner statement of a class body: Ok(the member) or Err.
class_member(s) ==
    CASE s.node = "Function" -> Ok(Method(s.name, s.params, s.body, <<>>))
      [] s.node = "Method"   -> Ok(s)
      [] OTHER               -> InvalidClassStatement

ClassPush ==
    /\ AtPc("class_push")
    /\ ret.tag = "Ok"
    /\ LET m == class_member(ret.val) IN
         IF m.tag = "Ok"
         THEN Step([top EXCEPT !.body = Append(@, m.val), !.pc = "class_body"])
         ELSE Return(m)
    /\ UNCHANGED <<Cursor, Source>>

(* Echo arm *)

EchoLoop ==
    /\ AtPc("echo_loop")
    /\ \E k \in Lookahead :
          IF k \notin {None, "SemiColon"}
          THEN /\ Keep(k)
               /\ Invoke([top EXCEPT !.pc = "echo_push"], ExpressionFrame(0))
          ELSE /\ Take(k)
               /\ ExpectLast(k, "SemiColon",
                             "expected semi-colon at the end of an echo statement",
                             Echo(top.values))
    /\ UNCHANGED Source

EchoPush ==
    /\ AtPc("echo_push")
    /\ ret.tag = "Ok"
    /\ \E k \in Lookahead :
          /\ IF k = "Comma" THEN Take(k) ELSE Keep(k)
          /\ Step([top EXCEPT !.values = Append(@, ret.val), !.pc = "echo_loop"])
    /\ UNCHANGED Source

(* Return arm *)

ReturnStart ==
    /\ AtPc("ret_start")
    /\ \E k \in Lookahead :
          IF k = "SemiColon"
          THEN /\ Take(k)
               /\ ExpectLast(k, "SemiColon",
                             "expected semi-colon at the end of return statement.",
                             ReturnStmt(<<>>))
          ELSE Keep(k) /\ Invoke([top EXCEPT !.pc = "ret_semi"], ExpressionFrame(0))
    /\ UNCHANGED Source

\* Result<Expression, ParseError>::ok()
ok(r) == IF r.tag = "Ok" THEN <<r.val>> ELSE <<>>

\* A variant that lets a failed value stand for `return;` without the `;`.
ReturnSemiColonLenient ==
    /\ AtPc("ret_semi")
    /\ ret.tag \in {"Ok", "Err"}
    /\ IF ret.tag = "Err"
       THEN Return(Ok(ReturnStmt(<<>>))) /\ UNCHANGED Cursor
       ELSE \E k \in Lookahead :
               /\ Take(k)
               /\ ExpectLast(k, "SemiColon",
                             "expected semi-colon at the end of return statement.",
                             ReturnStmt(ok(ret)))
    /\ UNCHANGED Source

ReturnSemiColon ==
    /\ AtPc("ret_semi")
    /\ ret.tag \in {"Ok", "Err"}
    /\ \E k \in Lookahead :
          /\ Take(k)
          /\ ExpectLast(k, "SemiColon",
                        "expected semi-colon at the end of return statement.",
                        ReturnStmt(ok(ret)))
    /\ UNCHANGED Source

(* Function arm *)

FunctionName ==
    /\ AtPc("fn_name")
    /\ \E k \in Lookahead :
          /\ Take(k)
          /\ LET e == expect(k, "Identifier", "expected identifier") IN
               IF e.tag = "Ok"
               THEN Step([top EXCEPT !.name = At, !.pc = "fn_lparen"])
               ELSE Return(e)
    /\ UNCHANGED Source

FunctionLeftParen ==
    /\ AtPc("fn_lparen")
    /\ Expect("LeftParen", "expected (", [top EXCEPT !.pc = "fn_params"])
    /\ UNCHANGED Source

FunctionParams ==
    /\ AtPc("fn_params")
    /\ \E k \in Lookahead :
          /\ Take(k)
          /\ LET e == IF k \notin {None, "RightParen"}
                      THEN expect(k, "Variable", "expected variable")
                      ELSE expect(k, "RightParen", "expected )")
             IN  IF e.tag # "Ok" THEN Return(e)
                 ELSE IF k = "Variable"
                      THEN Step([top EXCEPT !.params = Append(@, ParamFrom(At)),
                                            !.pc = "fn_comma"])
                      ELSE Step([top EXCEPT !.pc = "fn_lbrace"])
    /\ UNCHANGED Source

FunctionComma ==
    /\ AtPc("fn_comma")
    /\ \E k \in Lookahead :
          /\ IF k = "Comma" THEN Take(k) ELSE Keep(k)
          /\ Step([top EXCEPT !.pc = "fn_params"])
    /\ UNCHANGED Source

FunctionLeftBrace ==
    /\ AtPc("fn_lbrace")
    /\ Expect("LeftBrace", "expected {", [top EXCEPT !.pc = "fn_body"])
    /\ UNCHANGED Source

FunctionBody ==
    /\ AtPc("fn_body")
    /\ \E k \in Lookahead :
          /\ Take(k)
          /\ IF k \notin {None, "RightBrace"}
             THEN Invoke([top EXCEPT !.pc = "fn_push"], StatementFrame(k, At))
             ELSE ExpectLast(k, "RightBrace", "expected }",
                             Function(top.name, top.params, top.body))
    /\ UNCHANGED Source

FunctionPush ==
    /\ AtPc("fn_push")
    /\ ret.tag = "Ok"
    /\ Step([top EXCEPT !.body = Append(@, ret.val), !.pc = "fn_body"])
    /\ UNCHANGED <<Cursor, Source>>

(* Modifier arm *)

\* push_flag that puts the new flag in front.
push_flag_front(flags, flag) == <<flag>> \o flags

\* flags.push(flag)
push_flag(flags, flag) == Append(flags, flag)

\* A variant of the modifier loop that looks at each modifier without taking it.
ModifierLoopPeek ==
    /\ AtPc("mod_loop")
    /\ \E k \in Lookahead :
          IF k # None /\ is_method_visibility_modifier(k)
          THEN /\ Keep(k)
               /\ Step([top EXCEPT
                          !.flags = push_flag(@, visibility_token_to_flag(k))])
          ELSE /\ Take(k)
               /\ IF k = None
                  THEN Unwind("unwrap on None")
                  ELSE Invoke([top EXCEPT !.pc = "mod_wrap"], StatementFrame(k, At))
    /\ UNCHANGED Source

ModifierLoop ==
    /\ AtPc("mod_loop")
    /\ \E k \in Lookahead :
          /\ Take(k)
          /\ IF k # None /\ is_method_visibility_modifier(k)
             THEN Step([top EXCEPT
                          !.flags = push_flag(@, visibility_token_to_flag(k))])
             ELSE IF k = None
                  THEN Unwind("unwrap on None")
                  ELSE Invoke([top EXCEPT !.pc = "mod_wrap"], StatementFrame(k, At))
    /\ UNCHANGED Source

\* The match on the statement that follows the modifiers.
method_of(s, flags) ==
    CASE s.node = "Function" -> Ok(Method(s.name, s.params, s.body, flags))
      [] OTHER               -> InvalidClassStatement

ModifierWrap ==
    /\ AtPc("mod_wrap")
    /\ ret.tag = "Ok"
    /\ Return(method_of(ret.val, top.flags))
    /\ UNCHANGED <<Cursor, Source>>

------------------------------------------------------------------------------
(* Parser::expression                                                         *)

ExpressionStart ==
    /\ AtPc("ex_start")
    /\ \E k \in Lookahead :
          IF k = None
          THEN Keep(k) /\ Return(UnexpectedEndOfFile)
          ELSE /\ Take(k)
               /\ IF k \in {"Variable", "Int", "Identifier"}
                  THEN Step([top EXCEPT !.lhs = Primary(k, At), !.pc = "ex_loop"])
                  ELSE Unwind("lhs")
    /\ UNCHANGED Source

ExpressionLoop ==
    /\ AtPc("ex_loop")
    /\ \E k \in Lookahead :
          LET pbp == postfix_binding_power(k)
              ibp == infix_binding_power(k)
              break == Keep(k) /\ Return(Ok(top.lhs))
          IN  IF k \in {"SemiColon", None} THEN break
              ELSE IF pbp # <<>>
                   THEN IF pbp[1] < top.bp THEN break
                        ELSE /\ Take(k)
                             /\ Invoke([top EXCEPT !.pc = "ex_postfix"],
                                       PostfixFrame(top.lhs, k))
              ELSE IF ibp # <<>>
                   THEN IF ibp[1] < top.bp THEN break
                        ELSE /\ Take(k)
                             /\ Invoke([top EXCEPT !.op = k, !.pc = "ex_infix"],
                                       ExpressionFrame(ibp[2]))
              ELSE break
    /\ UNCHANGED Source

ExpressionPostfix ==
    /\ AtPc("ex_postfix")
    /\ ret.tag = "Ok"
    /\ Step([top EXCEPT !.lhs = ret.val, !.pc = "ex_loop"])
    /\ UNCHANGED <<Cursor, Source>>

ExpressionInfix ==
    /\ AtPc("ex_infix")
    /\ ret.tag = "Ok"
    /\ Step([top EXCEPT !.lhs = infix(top.lhs, top.op, ret.val), !.pc = "ex_loop"])
    /\ UNCHANGED <<Cursor, Source>>

------------------------------------------------------------------------------
(* Parser::postfix                                                            *)

PostfixDispatch ==
    /\ AtPc("pf_dispatch")
    /\ IF top.op = "LeftParen"
       THEN Step([top EXCEPT !.pc = "pf_args"])
       ELSE Unwind("postfix")
    /\ UNCHANGED <<Cursor, Source>>

PostfixArgs ==
    /\ AtPc("pf_args")
    /\ \E k \in Lookahead :
          IF k \notin {None, "RightParen"}
          THEN /\ Keep(k)
               /\ Invoke([top EXCEPT !.pc = "pf_push"], ExpressionFrame(0))
          ELSE /\ Take(k)
               /\ ExpectLast(k, "RightParen", "expected )", Call(top.lhs, top.args))
    /\ UNCHANGED Source

PostfixPush ==
    /\ AtPc("pf_push")
    /\ ret.tag = "Ok"
    /\ \E k \in Lookahead :
          /\ IF k = "Comma" THEN Take(k) ELSE Keep(k)
          /\ Step([top EXCEPT !.args = Append(@, ret.val), !.pc = "pf_args"])
    /\ UNCHANGED Source

------------------------------------------------------------------------------
(* Parser::param_list (parser/params.rs).  This parser keeps the token it is  *)
(* looking at in self.current: reading self.current.kind is a look at the     *)
(* cursor and self.next() consumes the token.                                 *)

\* param_list(&mut self) of a parser configured with force_type_strings = force.
ParamListFrame(force) ==
    [fn |-> "param_list", pc |-> "pl_head", force |-> force, params |-> <<>>,
     flag |-> <<>>, type |-> <<>>, variadic |-> FALSE, by_ref |-> FALSE, var |-> 0]

\* The Param pushed at the end of an iteration; the Options are <<>> or <<x>>.
Param(var, type, variadic, default, flag, by_ref) ==
    [name |-> [node |-> "Variable", v |-> var], type |-> type, variadic |-> variadic,
     default |-> default, flag |-> flag, by_ref |-> by_ref]

\* self.is_eof()
is_eof(k) == k = None

\* expect!(self, kind, out, msg) of this parser: the current token passes and
\* is consumed, or param_list returns Err(ExpectedToken(msg)).
expect_current(k, kind, msg) ==
    IF k = kind THEN Ok(k) ELSE ExpectedToken(msg)

\* self.type_string(): a type is one identifier.
type_string(k) == expect_current(k, "Identifier", "expected type")

\* The loop condition, then the optional visibility flag.
ParamListHead ==
    /\ AtPc("pl_head")
    /\ \E k \in Lookahead :
          IF is_eof(k) \/ k = "RightParen"
          THEN Keep(k) /\ Return(Ok(top.params))
          ELSE IF k \in {"Public", "Protected", "Private"}
               THEN Take(k) /\ Step([top EXCEPT !.flag = <<k>>, !.pc = "pl_type"])
               ELSE Keep(k) /\ Step([top EXCEPT !.flag = <<>>, !.pc = "pl_type"])
    /\ UNCHANGED Source

ParamListType ==
    /\ AtPc("pl_type")
    /\ \E k \in Lookahead :
          IF k \notin {"Variable", "Ellipsis", "Ampersand"} \/ top.force
          THEN LET t == type_string(k) IN
                 IF t.tag = "Ok"
                 THEN Take(k) /\ Step([top EXCEPT !.type = <<At>>, !.pc = "pl_marker"])
                 ELSE Keep(k) /\ Return(t)
          ELSE Keep(k) /\ Step([top EXCEPT !.type = <<>>, !.pc = "pl_marker"])
    /\ UNCHANGED Source

\* The match on the marker that lets a marker be followed by another one.
marker_repeated(f, k) ==
    CASE k = "Ellipsis"  -> [f EXCEPT !.variadic = TRUE]
      [] k = "Ampersand" -> [f EXCEPT !.by_ref = TRUE]
      [] OTHER           -> [f EXCEPT !.pc = "pl_var"]

\* The match on self.current.kind that sets variadic or by_ref: the frame
\* after it, with both flags false before it.
marker(f, k) ==
    CASE k = "Ellipsis"  -> [f EXCEPT !.variadic = TRUE, !.pc = "pl_var"]
      [] k = "Ampersand" -> [f EXCEPT !.by_ref = TRUE, !.pc = "pl_var"]
      [] OTHER           -> [f EXCEPT !.pc = "pl_var"]

ParamListMarker ==
    /\ AtPc("pl_marker")
    /\ \E k \in Lookahead :
          /\ IF k \in {"Ellipsis", "Ampersand"} THEN Take(k) ELSE Keep(k)
          /\ Step(marker(top, k))
    /\ UNCHANGED Source

ParamListVariable ==
    /\ AtPc("pl_var")
    /\ \E k \in Lookahead :
          LET e == expect_current(k, "Variable", "expected variable") IN
            IF e.tag = "Ok"
            THEN Take(k) /\ Step([top EXCEPT !.var = At, !.pc = "pl_default"])
            ELSE Keep(k) /\ Return(e)
    /\ UNCHANGED Source

ParamListDefault ==
    /\ AtPc("pl_default")
    /\ \E k \in Lookahead :
          IF k = "Equals"
          THEN Take(k) /\ Invoke([top EXCEPT !.pc = "pl_push"], ExpressionFrame(0))
          ELSE Keep(k) /\ Step([top EXCEPT !.pc = "pl_push"])
    /\ UNCHANGED Source

\* params.push(Param { .. }), then self.optional_comma()?.
ParamListPush ==
    /\ AtPc("pl_push")
    /\ ret.tag \in {"none", "Ok"}
    /\ \E k \in Lookahead :
          /\ IF k = "Comma" THEN Take(k) ELSE Keep(k)
          /\ Step([top EXCEPT
                     !.params = Append(@, Param(top.var, top.type, top.variadic,
                                                ok(ret), top.flag, top.by_ref)),
                     !.variadic = FALSE, !.by_ref = FALSE, !.pc = "pl_head"])
    /\ UNCHANGED Source

------------------------------------------------------------------------------
(* Specifications.                                                            *)

\* The parser is started by `frame` on the token vectors that begin with
\* `prefix` and go on with at most `len` tokens of `kinds`.
Start(prefix, kinds, len, frame) ==
    /\ input = prefix
    /\ pos = 0
    /\ eof = FALSE
    /\ src = kinds
    /\ limit = Len(prefix) + len
    /\ stack = <<frame>>
    /\ ret = NoRet

StatementNext ==
    \/ StatementDispatch
    \/ IfLeftParen \/ IfRightParen \/ IfLeftBrace \/ IfBody \/ IfPush
    \/ ClassName \/ ClassLeftBrace \/ ClassBody \/ ClassPush
    \/ EchoLoop \/ EchoPush
    \/ ReturnStart \/ ReturnSemiColon
    \/ FunctionName \/ FunctionLeftParen \/ FunctionParams \/ FunctionComma
    \/ FunctionLeftBrace \/ FunctionBody \/ FunctionPush
    \/ ModifierLoop \/ ModifierWrap

ExpressionNext ==
    \/ ExpressionStart \/ ExpressionLoop \/ ExpressionPostfix \/ ExpressionInfix
    \/ PostfixDispatch \/ PostfixArgs \/ PostfixPush

\* Parser::parse on every token vector of at most MaxLen tokens.
Init == Start(<<>>, TokenKinds, MaxLen, ParseFrame)

Next == ParseLoop \/ ParsePush \/ Try \/ StatementNext \/ ExpressionNext

Spec == Init /\ [][Next]_vars

ClassKinds == {"Class", "Function", "Identifier", "LeftParen", "RightParen",
               "LeftBrace", "RightBrace", "Variable", "InlineHtml", "Public",
               "Private", "Static", "Echo", "Return", "If", "SemiColon", "Plus"}

ClassLen == 8

InitClass == Start(<<"Class", "Identifier", "LeftBrace">>, ClassKinds, ClassLen, ParseFrame)

SpecClass == InitClass /\ [][Next]_vars

ParamKinds == {"Public", "Private", "Identifier", "Variable", "Ellipsis", "Ampersand",
               "Equals", "Comma", "RightParen", "LeftParen", "Int", "Plus"}

ParamLen == 8

\* Parser::param_list on every token vector of at most ParamLen tokens of the
\* kinds a parameter list is made of, with and without force_type_strings.
InitParams ==
    \E force \in BOOLEAN : Start(<<>>, ParamKinds, ParamLen, ParamListFrame(force))

NextParams ==
    \/ ParamListHead \/ ParamListType \/ ParamListMarker \/ ParamListVariable
    \/ ParamListDefault \/ ParamListPush
    \/ Try \/ ExpressionNext

SpecParams == InitParams /\ [][NextParams]_vars

ExprLen == 8

\* Parser::expression(tokens, 0) on every token vector of at most ExprLen tokens
\* of the kinds an expression statement is made of.
InitExpr == Start(<<>>, ExprKinds, ExprLen, ExpressionFrame(0))

NextExpr == Try \/ ExpressionNext

SpecExpr == InitExpr /\ [][NextExpr]_vars

------------------------------------------------------------------------------
(* Reading an AST.                                                            *)

RECURSIVE ExprNodes(_)
\* Every node of the expression tree e.
ExprNodes(e) ==
    {e} \cup
    CASE e.node = "Infix" -> ExprNodes(e.lhs) \cup ExprNodes(e.rhs)
      [] e.node = "Call"  -> ExprNodes(e.callee) \cup
                             UNION {ExprNodes(e.args[i]) : i \in DOMAIN e.args}
      [] OTHER            -> {}

\* The call that was started first has returned r.
Finished == stack = <<>>

\* An expression has just been returned by a call of Parser::expression.
ReturnedExprs ==
    IF ret.tag = "Ok" /\ (Finished \/ top.fn \in {"expression", "postfix"}
                                   \/ top.pc \in {"if_rparen", "echo_push", "ret_semi"})
    THEN ExprNodes(ret.val) ELSE {}

\* The tokens consumed so far are exactly `kinds`.
Consumed(kinds) == pos = Len(kinds) /\ SubSeq(input, 1, pos) = kinds

\* Expected trees, written out.
Leaf(kind, at) == [node |-> kind, v |-> at]

Bin(lhs, op, rhs) == [node |-> "Infix", lhs |-> lhs, op |-> op, rhs |-> rhs]

OpOf(kind) == IF kind = "Plus" THEN "Add" ELSE IF kind = "Minus" THEN "Sub" ELSE "LessThan"

IsInfix(e, ops) == e.node = "Infix" /\ e.op \in ops

------------------------------------------------------------------------------
(* C1: `+` and `-` are left-associative at the same tier.  When                *)
(* expression(tokens, 0) has consumed exactly `a op1 b op2 c`, with a, b, c    *)
(* primaries and op1, op2 in {+, -}, it returns                                *)
(* Infix(Infix(a, op1, b), op2, c); and in every expression returned by        *)
(* Parser::expression the right operand of an Add or Sub node is not an Infix  *)
(* node.                                                                       *)
C1_LeftAssociative ==
    /\ \A e \in ReturnedExprs :
          IsInfix(e, {"Add", "Sub"}) => e.rhs.node # "Infix"
    /\ (/\ Finished
        /\ ret.tag = "Ok"
        /\ pos = 5
        /\ \A i \in {1, 3, 5} : input[i] \in Primaries
        /\ \A i \in {2, 4} : input[i] \in {"Plus", "Minus"})
       => ret.val = Bin(Bin(Leaf(input[1], 1), OpOf(input[2]), Leaf(input[3], 3)),
                        OpOf(input[4]), Leaf(input[5], 5))

\* `$a - 1 + $b` has been parsed.
C1_Witness ==
    /\ Finished
    /\ ret.tag = "Ok"
    /\ Consumed(<<"Variable", "Minus", "Int", "Plus", "Variable">>)

(* C2: grouping follows the binding-power table across tiers.  In every        *)
(* expression returned by Parser::expression no Add or Sub node has a LessThan *)
(* node as a direct operand and the callee of a Call node is not an Infix      *)
(* node; `a < b + c` is Infix(a, LessThan, Infix(b, Add, c)), `a + b < c` is   *)
(* Infix(Infix(a, Add, b), LessThan, c) and `a + f(x)` is                      *)
(* Infix(a, Add, Call(f, [x])).                                                *)
C2_Grouping ==
    /\ \A e \in ReturnedExprs :
          /\ IsInfix(e, {"Add", "Sub"}) =>
                /\ ~IsInfix(e.lhs, {"LessThan"})
                /\ ~IsInfix(e.rhs, {"LessThan"})
          /\ e.node = "Call" => e.callee.node # "Infix"
    /\ (Finished /\ ret.tag = "Ok") =>
          /\ Consumed(<<"Variable", "LessThan", "Variable", "Plus", "Variable">>)
                => ret.val = Bin(Leaf("Variable", 1), "LessThan",
                                 Bin(Leaf("Variable", 3), "Add", Leaf("Variable", 5)))
          /\ Consumed(<<"Variable", "Plus", "Variable", "LessThan", "Variable">>)
                => ret.val = Bin(Bin(Leaf("Variable", 1), "Add", Leaf("Variable", 3)),
                                 "LessThan", Leaf("Variable", 5))
          /\ Consumed(<<"Variable", "Plus", "Identifier", "LeftParen", "Variable",
                        "RightParen">>)
                => ret.val = Bin(Leaf("Variable", 1), "Add",
                                 [node |-> "Call", callee |-> Leaf("Identifier", 3),
                                  args |-> <<Leaf("Variable", 5)>>])

\* `f($a) + 1 < 2` has been parsed: a call, an addition and a comparison.
C2_Witness ==
    /\ Finished
    /\ ret.tag = "Ok"
    /\ Consumed(<<"Identifier", "LeftParen", "Variable", "RightParen", "Plus", "Int",
                  "LessThan", "Int">>)

------------------------------------------------------------------------------
(* Reading statements.                                                        *)

\* Where a call of Parser::statement returns to.
StmtSites == {"parse_push", "if_push", "fn_push", "class_push", "mod_wrap"}

\* A call of Parser::statement has just returned Ok(ret.val).
ReturnedStmt == ret.tag = "Ok" /\ Running /\ top.pc \in StmtSites

\* The step pops the frame of the running call.
Returns == Running /\ stack' = SubSeq(stack, 1, Len(stack) - 1)

\* The kinds of the longest run of modifier tokens that starts at index i.
RunFlags(i) ==
    LET last == CHOOSE j \in i .. Len(input) :
                   /\ \A m \in i .. j : input[m] \in Modifiers
                   /\ (j = Len(input) \/ input[j + 1] \notin Modifiers)
    IN  [m \in 1 .. (last - i + 1) |-> input[i + m - 1]]

(* C3: a run of modifier tokens followed by a statement that resolves to      *)
(* Function gives a Method whose flags are the modifiers of the run in the    *)
(* order of the tokens, with the name, the params and the body of the         *)
(* Function.                                                                  *)
C3_MethodFlags ==
    [][(AtPc("mod_wrap") /\ ret.tag = "Ok" /\ ret.val.node = "Function")
         => /\ Returns
            /\ ret' = [tag |-> "Ok",
                       val |-> [node |-> "Method", name |-> ret.val.name,
                                params |-> ret.val.params, body |-> ret.val.body,
                                flags |-> RunFlags(top.at)]]]_vars

\* `private static function baz() {}` has been parsed inside a class.
C3_Witness ==
    /\ ReturnedStmt
    /\ ret.val.node = "Method"
    /\ ret.val.flags = <<"Private", "Static">>
    /\ SubSeq(input, 4, pos) = <<"Private", "Static", "Function", "Identifier",
                                 "LeftParen", "RightParen", "LeftBrace", "RightBrace">>

(* C4: the body of every Class statement that is returned holds Method        *)
(* statements only.  In a class body a Function becomes a Method with no      *)
(* flags, a Method is kept as it is, and any other statement ends the class   *)
(* with InvalidClassStatement, which every caller hands on; `class Foo {}`    *)
(* is a Class with an empty body.                                             *)
C4_ClassBody ==
    /\ [](ReturnedStmt /\ ret.val.node = "Class"
            => \A i \in DOMAIN ret.val.body : ret.val.body[i].node = "Method")
    /\ [][(AtPc("class_push") /\ ret.tag = "Ok")
            => CASE ret.val.node = "Function" ->
                      stack' = [stack EXCEPT ![Len(stack)] =
                                  [top EXCEPT !.pc = "class_body",
                                     !.body = Append(@,
                                        [node |-> "Method", name |-> ret.val.name,
                                         params |-> ret.val.params,
                                         body |-> ret.val.body, flags |-> <<>>])]]
                 [] ret.val.node = "Method" ->
                      stack' = [stack EXCEPT ![Len(stack)] =
                                  [top EXCEPT !.pc = "class_body",
                                              !.body = Append(@, ret.val)]]
                 [] OTHER ->
                      Returns /\ ret'.tag = "Err" /\ ret'.err = "InvalidClassStatement"
          ]_vars
    /\ []((Running /\ ret.tag = "Err" /\ ret.err = "InvalidClassStatement")
            => top.pc \in TryPcs)
    /\ []((Finished /\ ret.tag = "Ok" /\ eof
            /\ Consumed(<<"Class", "Identifier", "LeftBrace", "RightBrace">>))
            => ret.val = <<[node |-> "Class", name |-> 2, body |-> <<>>]>>)

\* `class Foo { function bar() {} }` has been parsed.
C4_Witness ==
    /\ Finished
    /\ ret.tag = "Ok"
    /\ Consumed(<<"Class", "Identifier", "LeftBrace", "Function", "Identifier",
                  "LeftParen", "RightParen", "LeftBrace", "RightBrace", "RightBrace">>)
    /\ ret.val[1].body[1].node = "Method"

(* C5: every Echo statement that is returned carries at least one value.      *)
C5_EchoNonEmpty ==
    (ReturnedStmt /\ ret.val.node = "Echo") => Len(ret.val.values) >= 1

\* Number of `{` tokens read minus number of `}` tokens read.
OpenBraces ==
    Cardinality({i \in DOMAIN input : input[i] = "LeftBrace"})
      - Cardinality({i \in DOMAIN input : input[i] = "RightBrace"})

(* C6 as stated: when the input ends while a block opened by `{` has not been *)
(* closed, the parse fails with ExpectedToken.  (A parse that panics is left  *)
(* aside here: the statement is refuted by a parse that returns another       *)
(* error.)                                                                    *)
C6_EndInsideBlock ==
    (Finished /\ eof /\ OpenBraces > 0 /\ ret.tag # "Panic")
       => (ret.tag = "Err" /\ ret.err = "ExpectedToken")

BlockPcs == {"if_body", "fn_body", "class_body"}

\* The message of the expect! that closes the block whose loop is at pc.
BraceMessage(pc) == IF pc = "class_body" THEN "expected right-brace" ELSE "expected }"

(* C6, amended: when the input ends where the next statement of an open block *)
(* would start, the block's statement returns ExpectedToken naming the        *)
(* closing brace ("expected }" for an if or function body, "expected          *)
(* right-brace" for a class body), and every caller hands that error on.      *)
C6_EndAtBlockLoop ==
    /\ [][(Running /\ top.pc \in BlockPcs /\ eof')
            => /\ Returns
               /\ ret' = [tag |-> "Err", err |-> "ExpectedToken",
                          msg |-> BraceMessage(top.pc)]]_vars
    /\ []((Running /\ ret.tag = "Err"
              /\ ret.msg \in {"expected }", "expected right-brace"})
            => top.pc \in TryPcs)

\* `function foo() {` and then the end of the input.
C6_Witness ==
    /\ Finished
    /\ eof
    /\ Consumed(<<"Function", "Identifier", "LeftParen", "RightParen", "LeftBrace">>)
    /\ ret.tag = "Err" /\ ret.err = "ExpectedToken" /\ ret.msg = "expected }"

(* C7: Parser::parse ends with Ok(Program), with Err(ExpectedToken |          *)
(* UnexpectedEndOfFile | InvalidClassStatement), or with the unhandled-input  *)
(* failure of a token that has no statement or primary-expression rule.       *)
C7_ResultOrUnhandled ==
    Finished =>
       \/ ret.tag = "Ok"
       \/ ret.tag = "Err" /\ ret.err \in {"ExpectedToken", "UnexpectedEndOfFile",
                                          "InvalidClassStatement"}
       \/ ret.tag = "Panic" /\ ret.msg \in {"unhandled token", "lhs", "postfix"}

(* C9: no flag occurs twice in the flags of a Method that is returned.        *)
C9_FlagsDistinct ==
    (ReturnedStmt /\ ret.val.node = "Method")
       => \A i, j \in DOMAIN ret.val.flags :
             i # j => ret.val.flags[i] # ret.val.flags[j]

------------------------------------------------------------------------------
(* Writing an AST back as tokens.  A token is <<kind, payload>>; the payload  *)
(* of a token that carries none is 0.                                         *)

Carriers == {"Variable", "Int", "Identifier", "InlineHtml"}

Tok(kind, at) == <<kind, IF kind \in Carriers THEN at ELSE 0>>

RECURSIVE Cat(_)
\* The concatenation of a sequence of sequences.
Cat(seqs) == IF seqs = <<>> THEN <<>> ELSE Head(seqs) \o Cat(Tail(seqs))

KindOfOp(op) ==
    CASE op = "Add" -> "Plus" [] op = "Sub" -> "Minus" [] op = "LessThan" -> "LessThan"

RECURSIVE ExprTokens(_)
ExprTokens(e) ==
    CASE e.node = "Infix" ->
           ExprTokens(e.lhs) \o <<Tok(KindOfOp(e.op), 0)>> \o ExprTokens(e.rhs)
      [] e.node = "Call" ->
           ExprTokens(e.callee) \o <<Tok("LeftParen", 0)>>
             \o Cat([i \in DOMAIN e.args |-> ExprTokens(e.args[i])])
             \o <<Tok("RightParen", 0)>>
      [] OTHER -> <<Tok(e.node, e.v)>>

RECURSIVE StmtTokens(_)
StmtTokens(s) ==
    LET Block(b) == <<Tok("LeftBrace", 0)>>
                      \o Cat([i \in DOMAIN b |-> StmtTokens(b[i])])
                      \o <<Tok("RightBrace", 0)>>
        Fn == <<Tok("Function", 0), Tok("Identifier", s.name), Tok("LeftParen", 0)>>
                \o [i \in DOMAIN s.params |-> Tok("Variable", s.params[i].name.v)]
                \o <<Tok("RightParen", 0)>> \o Block(s.body)
    IN  CASE s.node = "InlineHtml" -> <<Tok("InlineHtml", s.v)>>
          [] s.node = "If" ->
               <<Tok("If", 0), Tok("LeftParen", 0)>> \o ExprTokens(s.condition)
                 \o <<Tok("RightParen", 0)>> \o Block(s.then)
          [] s.node = "Class" ->
               <<Tok("Class", 0), Tok("Identifier", s.name)>> \o Block(s.body)
          [] s.node = "Echo" ->
               <<Tok("Echo", 0)>> \o Cat([i \in DOMAIN s.values |-> ExprTokens(s.values[i])])
                 \o <<Tok("SemiColon", 0)>>
          [] s.node = "Return" ->
               <<Tok("Return", 0)>> \o Cat([i \in DOMAIN s.value |-> ExprTokens(s.value[i])])
                 \o <<Tok("SemiColon", 0)>>
          [] s.node = "Function" -> Fn
          [] s.node = "Method" -> [i \in DOMAIN s.flags |-> Tok(s.flags[i], 0)] \o Fn

Separator(t) == t[1] \in {"Comma", "OpenTag"}

Significant(t) == ~Separator(t)

\* Tokens i .. j of the token vector inp, without the commas (and the open
\* tags, which only the top level lets through).
Segment(inp, i, j) ==
    SelectSeq([m \in 1 .. (j - i + 1) |-> Tok(inp[i + m - 1], i + m - 1)], Significant)

(* C8: a call of Parser::statement that returns Ok has consumed exactly the   *)
(* tokens of the statement it returns, from the token it was given to the     *)
(* closing `;` or `}`, and has looked at no token after them; when            *)
(* Parser::parse returns Ok every token has been consumed and the Program is  *)
(* the statements of the input in the order of the input (open tags add       *)
(* nothing).                                                                  *)
C8_ExactConsumption ==
    /\ [][(Running /\ top.fn = "statement" /\ Returns /\ ret'.tag = "Ok")
            => /\ pos' = Len(input')
               /\ StmtTokens(ret'.val) = Segment(input', top.at, pos')]_vars
    /\ []((Finished /\ ret.tag = "Ok")
            => /\ eof
               /\ pos = Len(input)
               /\ Cat([i \in DOMAIN ret.val |-> StmtTokens(ret.val[i])])
                     = Segment(input, 1, pos))

\* A program of two different statements after an open tag has been parsed.
C8_Witness ==
    /\ Finished
    /\ ret.tag = "Ok"
    /\ Len(ret.val) = 2
    /\ ret.val[1].node # ret.val[2].node
    /\ input[1] = "OpenTag"

------------------------------------------------------------------------------
\* The Params the running call of param_list has pushed, or has returned.
ParamsBuilt ==
    IF Running /\ top.fn = "param_list" THEN top.params
    ELSE IF Finished /\ ret.tag = "Ok" THEN ret.val
    ELSE <<>>

Markers == {"Ellipsis", "Ampersand"}

(* C10: no Param produced by param_list is both variadic and by_ref; when     *)
(* the token after a marker (`...` or `&`) is a second marker, param_list     *)
(* returns ExpectedToken("expected variable").                                *)
C10_OneMarker ==
    /\ [](\A i \in DOMAIN ParamsBuilt :
            ~(ParamsBuilt[i].variadic /\ ParamsBuilt[i].by_ref))
    /\ [][(/\ AtPc("pl_var")
           /\ (top.variadic \/ top.by_ref)
           /\ Len(input') > pos
           /\ input'[pos + 1] \in Markers)
            => /\ Returns
               /\ ret' = [tag |-> "Err", err |-> "ExpectedToken",
                          msg |-> "expected variable"]]_vars

\* `&$a, ...$b` has been parsed: one by-reference and one variadic parameter.
C10_Witness ==
    /\ Finished
    /\ ret.tag = "Ok"
    /\ Len(ret.val) = 2
    /\ ret.val[1].by_ref /\ ~ret.val[1].variadic
    /\ ret.val[2].variadic /\ ~ret.val[2].by_ref

------------------------------------------------------------------------------
(* Return statements.                                                         *)

\* The step returns Ok from the call of Parser::statement on a `return` token.
ReturnsReturn ==
    /\ Returns
    /\ top.fn = "statement" /\ top.t = "Return"
    /\ ret'.tag = "Ok"

SemiColonMessage == "expected semi-colon at the end of return statement."

(* C11: a Return statement is returned with value None exactly when the token *)
(* right after `return` is `;`, which is then the last token consumed; every  *)
(* other Return returned carries Some(expression) and ends at a `;`.  When    *)
(* the expression of the value fails, the error is dropped, the `;` is still  *)
(* expected, and the statement returns ExpectedToken, never Ok.               *)
C11_ReturnValue ==
    /\ [][ReturnsReturn =>
            /\ ret'.val.node = "Return"
            /\ input'[pos'] = "SemiColon"
            /\ (ret'.val.value = <<>>)
                 <=> (input'[top.at + 1] = "SemiColon" /\ pos' = top.at + 1)
            /\ (ret'.val.value # <<>>)
                 => (Len(ret'.val.value) = 1 /\ pos' > top.at + 1)]_vars
    /\ [][(AtPc("ret_semi") /\ ret.tag = "Err")
            => /\ Returns
               /\ ret' = [tag |-> "Err", err |-> "ExpectedToken",
                          msg |-> SemiColonMessage]]_vars

\* `return 1 +` and then the end of the input: the UnexpectedEndOfFile of the
\* right operand is dropped and the missing `;` is what the parse reports.
C11_Witness ==
    /\ Finished
    /\ eof
    /\ Consumed(<<"Return", "Int", "Plus">>)
    /\ ret = [tag |-> "Err", err |-> "ExpectedToken", msg |-> SemiColonMessage]

\* `return;` has been parsed into Return { value: None }.
C11_WitnessNone ==
    /\ Finished
    /\ Consumed(<<"Return", "SemiColon">>)
    /\ ret.tag = "Ok"
    /\ ret.val = <<ReturnStmt(<<>>)>>

------------------------------------------------------------------------------
(* Termination.                                                               *)

\* Parser::parse under the scheduling of a sequential program: a step that can
\* be taken is taken.
SpecFair == Init /\ [][Next]_vars /\ WF_vars(Next)

\* The positions at which a loop of the parser tests its condition: the
\* statement loop of parse, the bodies of if, function and class, the values
\* of echo, the parameters of a function, the modifier run, the arguments of
\* a call and the operator loop of expression.
LoopHeads == {"parse_loop", "if_body", "fn_body", "class_body", "echo_loop",
              "fn_params", "mod_loop", "pf_args", "ex_loop"}

\* An upper bound on the tokens that remain to be consumed.
Remaining == limit - pos

\* The calls in progress, not counting a call of expression that has not yet
\* looked at its first token.
Depth == Len(stack) - (IF Running /\ top.pc = "ex_start" THEN 1 ELSE 0)

\* The steps the running call can take before it consumes a token, returns or
\* makes a call that consumes.
Weight ==
    IF ~Running \/ ret.tag = "Err" THEN 0
    ELSE CASE top.pc \in {"dispatch", "pf_dispatch", "echo_push", "pf_push"} -> 3
           [] top.pc \in {"echo_loop", "pf_args", "ret_start"} -> 2
           [] top.pc \in {"ex_start", "parse_push", "if_push", "fn_push",
                          "class_push", "fn_comma", "ex_postfix", "ex_infix"} -> 1
           [] OTHER -> 0

Rank == <<Remaining, Depth, Weight>>

\* Lexicographic order on triples of naturals.
LexLess(a, b) ==
    \/ a[1] < b[1]
    \/ a[1] = b[1] /\ a[2] < b[2]
    \/ a[1] = b[1] /\ a[2] = b[2] /\ a[3] < b[3]

(* C12: Parser::parse terminates on every finite token sequence.  A step at   *)
(* the head of a loop consumes a token, leaves the call, or calls expression  *)
(* on a token it has seen, which expression then consumes; the tokens that    *)
(* remain never grow, every step lowers the rank (remaining tokens, calls in  *)
(* progress, steps left before the next token), and the parse finishes.       *)
C12_Terminates ==
    /\ [][(Running /\ top.pc \in LoopHeads)
            => \/ pos' = pos + 1
               \/ Len(stack') < Len(stack)
               \/ /\ Len(stack') = Len(stack) + 1
                  /\ stack'[Len(stack')].pc = "ex_start"
                  /\ pos' < Len(input')]_vars
    /\ [][(AtPc("ex_start") /\ pos < Len(input)) => pos' = pos + 1]_vars
    /\ [][pos' >= pos /\ limit' = limit /\ LexLess(Rank', Rank)]_vars
    /\ [](Remaining >= 0 /\ Depth >= 0)
    /\ <>Finished

\* `echo 1, 2;` has been parsed to the end of the input: the echo loop ran
\* twice, each time consuming a value.
C12_Witness ==
    /\ Finished
    /\ eof
    /\ Consumed(<<"Echo", "Int", "Comma", "Int", "SemiColon">>)
    /\ ret.tag = "Ok"
    /\ Len(ret.val) = 1 /\ Len(ret.val[1].values) = 2

====
